---- MODULE Spec2Model ----
(***************************************************************************)
(* The contest/problem list navigator of codeforces_client.py (class Tool):*)
(* a two level outline of contests (groups) and problems (items), a        *)
(* selection, a window start and the cached row of the selection.          *)
(*                                                                         *)
(* Spec    : the key loop of Tool.main over a catalogue of contests.       *)
(* SpecAny : the same key loop over any list of contests, the empty list   *)
(*           and empty contests included.                                  *)
(* SpecFn  : the index arithmetic (_increment_index, _compare_indices)     *)
(*           applied to arguments drawn from bounded sets.                 *)
(* SpecUI  : the key loop of competitive_programming_client.py (class Tool *)
(*           over class CursesUI): a flat selection, a selected index and  *)
(*           a viewport start.                                             *)
(***************************************************************************)
EXTENDS Integers, Sequences, FiniteSets, TLC

VARIABLES contests,   \* self._contests: sequence of [len, expanded]
          start,      \* self._start
          selected,   \* self._selected
          relative,   \* self._relative
          max_y,      \* self._max_y
          count,      \* local count of Tool.main
          history,    \* local history of Tool.main, most recent key first
          paint,      \* what the last handled key painted on the screen
          pc,         \* "running", "quit" or the name of an uncaught exception
          fn,         \* SpecFn: the last call of a pure method and its result
          ui          \* SpecUI: the CursesUI of competitive_programming_client.py

vars == <<contests, start, selected, relative, max_y, count, history, paint, pc, fn, ui>>

-----------------------------------------------------------------------------
(* Bounds *)

MaxGroups == 2
MaxItems == 2
MaxHeight == 2
MaxCount == 2
MaxStep == 6
MaxUiHeight == 3
MaxUiCount == 12
MaxTyped == 3
MaxScroll == 2

(* A step far larger than any outline of the bounds. *)
HugeStep == 1000

(* collections.deque(maxlen=3) *)
HistoryMaxLen == 3

(* The four entries of the root selection of competitive_programming_client.py *)
RootEntries == 4

-----------------------------------------------------------------------------
(* Values *)

(* Python's None and an int in the second component of an index pair. *)
None == <<>>
Some(k) == <<k>>

(* The step argument: a finite int, math.inf or -math.inf.  v carries the  *)
(* value of a finite step and the sign of an infinite one.                 *)
Fin(v) == [k |-> "fin", v |-> v]
PosInf == [k |-> "inf", v |-> 1]
NegInf == [k |-> "inf", v |-> -1]

Min(a, b) == IF a < b THEN a ELSE b

(* x + n, x >= m and x < m of Python on an int x and a step n. *)
StepAdd(x, n) == IF n.k = "inf" THEN n ELSE Fin(x + n.v)
StepGe(x, m) == IF x.k = "inf" THEN x.v > 0 ELSE x.v >= m
StepLt(x, m) == IF x.k = "inf" THEN x.v < 0 ELSE x.v < m

(* A ContestItem: a list of len problems with the expanded attribute. *)
ContestItem(len, expanded) == [len |-> len, expanded |-> expanded]

(* seq[i] of a Python list of length len raises IndexError. *)
IndexError(len, i) == i >= len \/ i < -len

-----------------------------------------------------------------------------
(* Tool._increment_index *)

(* The two assertions at the head of _increment_index. *)
increment_index_asserts(cs, index) ==
    /\ 0 <= index[1]
    /\ index[1] < Len(cs)
    /\ (index[2] = None \/ cs[index[1] + 1].expanded)

(* The loop "while n > 0" of the branch n > 0, entered with problem_index  *)
(* None; the value is the (contest_index, problem_index) it ends with.     *)
RECURSIVE go_down(_, _, _)
go_down(cs, contest_index, n) ==
    IF ~(n > 0) THEN <<contest_index, None>>
    ELSE LET contest == cs[contest_index + 1] IN
         IF contest_index = Len(cs) - 1
         THEN IF contest.expanded
              THEN <<contest_index, Some(Min(contest.len - 1, n - 1))>>
              ELSE <<contest_index, None>>
         ELSE IF contest.expanded
              THEN IF contest.len < n
                   THEN go_down(cs, contest_index + 1, n - (contest.len + 1))
                   ELSE <<contest_index, Some(n - 1)>>
              ELSE go_down(cs, contest_index + 1, n - 1)

(* go_up with the header slot of an expanded contest left out of the count. *)
RECURSIVE go_up_forgets_header(_, _, _)
go_up_forgets_header(cs, contest_index, n) ==
    IF contest_index # 0 /\ n > 0
    THEN LET contest == cs[contest_index] IN
         go_up_forgets_header(cs, contest_index - 1,
                              n - (IF contest.expanded THEN contest.len ELSE 1))
    ELSE <<contest_index, IF n < 0 THEN Some(-n - 1) ELSE None>>

(* The loop "while contest_index != 0 and n > 0" of the branch n < 0 and   *)
(* the "if n < 0" that follows it.                                         *)
RECURSIVE go_up(_, _, _)
go_up(cs, contest_index, n) ==
    IF contest_index # 0 /\ n > 0
    THEN LET contest == cs[contest_index] IN
         go_up(cs, contest_index - 1,
               n - (IF contest.expanded THEN contest.len + 1 ELSE 1))
    ELSE <<contest_index, IF n < 0 THEN Some(-n - 1) ELSE None>>

(* increment_index_last with len(self._contests) taken for the last index. *)
increment_index_last_off_by_one(cs) ==
    LET last_contest == cs[Len(cs)]
    IN IF last_contest.expanded
       THEN <<Len(cs), Some(last_contest.len - 1)>>
       ELSE <<Len(cs), None>>

(* The index of the last contest or problem (n == math.inf). *)
increment_index_last(cs) ==
    LET last_contest_index == Len(cs) - 1
        last_contest == cs[Len(cs)]
    IN IF last_contest.expanded
       THEN <<last_contest_index, Some(last_contest.len - 1)>>
       ELSE <<last_contest_index, None>>

(* increment_index_zero that falls through to the contest of the index. *)
increment_index_zero_to_contest(index) == <<index[1], None>>

(* The branch n == 0. *)
increment_index_zero(index) == index

(* increment_index with the problem index taken for the offset of the     *)
(* problem from its contest (index[1] for index[1] + 1).                   *)
increment_index_offset_off_by_one(cs, index, n) ==
    LET offset == IF index[2] = None THEN 0 ELSE index[2][1] IN
    IF n.k = "inf"
    THEN IF n.v > 0 THEN increment_index_last(cs) ELSE <<0, None>>
    ELSE IF n.v > 0 THEN go_down(cs, index[1], n.v + offset)
    ELSE IF n.v < 0 THEN go_up(cs, index[1], (-n.v) - offset)
    ELSE increment_index_zero(index)

(* The value _increment_index returns when its assertions hold. *)
increment_index(cs, index, n) ==
    LET offset == IF index[2] = None THEN 0 ELSE index[2][1] + 1 IN
    IF n.k = "inf"
    THEN IF n.v > 0 THEN increment_index_last(cs) ELSE <<0, None>>
    ELSE IF n.v > 0 THEN go_down(cs, index[1], n.v + offset)
    ELSE IF n.v < 0 THEN go_up(cs, index[1], (-n.v) - offset)
    ELSE increment_index_zero(index)

(* The number of times the body of "while n > 0" (go down) runs. *)
RECURSIVE go_down_iterations(_, _, _)
go_down_iterations(cs, contest_index, n) ==
    IF ~(n > 0) THEN 0
    ELSE LET contest == cs[contest_index + 1] IN
         IF contest_index = Len(cs) - 1 THEN 1
         ELSE IF contest.expanded
              THEN IF contest.len < n
                   THEN 1 + go_down_iterations(cs, contest_index + 1, n - (contest.len + 1))
                   ELSE 1
              ELSE 1 + go_down_iterations(cs, contest_index + 1, n - 1)

(* The number of times the body of "while contest_index != 0 and n > 0"    *)
(* (go up) runs.                                                           *)
RECURSIVE go_up_iterations(_, _, _)
go_up_iterations(cs, contest_index, n) ==
    IF contest_index # 0 /\ n > 0
    THEN LET contest == cs[contest_index] IN
         1 + go_up_iterations(cs, contest_index - 1,
                              n - (IF contest.expanded THEN contest.len + 1 ELSE 1))
    ELSE 0

(* increment_index_iterations of a walk that visits one slot per iteration. *)
increment_index_iterations_per_slot(cs, index, n) ==
    IF n.k = "inf" THEN 0 ELSE IF n.v < 0 THEN -n.v ELSE n.v

(* The number of loop iterations of one call of _increment_index. *)
increment_index_iterations(cs, index, n) ==
    LET offset == IF index[2] = None THEN 0 ELSE index[2][1] + 1 IN
    IF n.k = "inf" THEN 0
    ELSE IF n.v > 0 THEN go_down_iterations(cs, index[1], n.v + offset)
    ELSE IF n.v < 0 THEN go_up_iterations(cs, index[1], (-n.v) - offset)
    ELSE 0

-----------------------------------------------------------------------------
(* Tool._compare_indices *)

compare_indices(a, b) ==
    IF a[1] = b[1]
    THEN IF a[2] = b[2] THEN 0
         ELSE IF a[2] = None THEN -1
         ELSE 1
    ELSE IF a[1] > b[1] THEN 1
    ELSE -1

-----------------------------------------------------------------------------
(* The outline as the specification describes it: the flattened slots. *)

RECURSIVE ItemSlots(_, _, _)
ItemSlots(g, k, len) ==
    IF k >= len THEN <<>> ELSE <<(<<g, Some(k)>>)>> \o ItemSlots(g, k + 1, len)

RECURSIVE SlotsFrom(_, _)
SlotsFrom(cs, g) ==
    IF g >= Len(cs) THEN <<>>
    ELSE <<(<<g, None>>)>>
         \o (IF cs[g + 1].expanded THEN ItemSlots(g, 0, cs[g + 1].len) ELSE <<>>)
         \o SlotsFrom(cs, g + 1)

Slots(cs) == SlotsFrom(cs, 0)

ValidPositions(cs) == {Slots(cs)[i] : i \in 1..Len(Slots(cs))}

IsValid(cs, pos) == pos \in ValidPositions(cs)

(* The number of the slot of a valid position, counted from 0. *)
SlotOf(cs, pos) == CHOOSE i \in 0..(Len(Slots(cs)) - 1) : Slots(cs)[i + 1] = pos

LastPosition(cs) == Slots(cs)[Len(Slots(cs))]

(* The slot reached from slot s by n single steps, stopping at either end. *)
ClampSlot(cs, s) ==
    IF s < 0 THEN 0
    ELSE IF s > Len(Slots(cs)) - 1 THEN Len(Slots(cs)) - 1
    ELSE s

Walk(cs, pos, v) == Slots(cs)[ClampSlot(cs, SlotOf(cs, pos) + v) + 1]

-----------------------------------------------------------------------------
(* Tool._redraw, Tool._handle_resize, Tool._handle_move *)

Sign(n) == IF n.v > 0 THEN 1 ELSE IF n.v < 0 THEN -1 ELSE 0

(* What a handled key did: op is the operation, n the argument of its call *)
(* of _handle_move (Fin(0) when it made none) and dir the sign of n, kind  *)
(* "full" for _redraw, "swap" for the two calls of _place_contest/         *)
(* _place_problem, rows the screen lines written.                          *)
Painted(op, n, kind, rows) ==
    [op |-> op, n |-> n, dir |-> Sign(n), kind |-> kind, rows |-> rows]

(* _redraw reads contest[problem_index] for the problems it places; the    *)
(* first one read is the problem of self._start.                           *)
redraw_raises(cs, st) ==
    /\ st[2] # None
    /\ cs[st[1] + 1].expanded
    /\ IndexError(cs[st[1] + 1].len, st[2][1])
    /\ st[2][1] < cs[st[1] + 1].len

(* The rows _redraw writes: every line from 0 to max_y - 1. *)
redraw_rows(my) == 0..(my - 1)

(* The rows a call of _redraw has written when it returns or raises: the   *)
(* read that raises comes before the first line is placed.                 *)
redraw_painted(cs, st, my) == IF redraw_raises(cs, st) THEN {} ELSE redraw_rows(my)

(* The selection swap of _handle_move reads the old and the new problem. *)
swap_raises(cs, sel, new_selected) ==
    \/ sel[2] # None /\ IndexError(cs[sel[1] + 1].len, sel[2][1])
    \/ new_selected[2] # None /\ IndexError(cs[new_selected[1] + 1].len, new_selected[2][1])

(* new_relative >= self._max_y, the test of the branch n > 0. *)
move_down_shifts(rel, n, my) == StepGe(StepAdd(rel, n), my)

(* new_relative < 0, the test of the branch n < 0. *)
move_up_shifts(rel, n) == StepLt(StepAdd(rel, n), 0)

(* _handle_move(n) in the state (st, sel, rel, my): the fields it leaves,  *)
(* what it painted and the exception it raised ("" for none).              *)
handle_move(cs, st, sel, rel, my, n) ==
    LET stay(kind, rows, err) == [start |-> st, selected |-> sel, relative |-> rel,
                                  kind |-> kind, rows |-> rows, err |-> err]
        same(kind, err) == stay(kind, {}, err)
    IN
    IF ~increment_index_asserts(cs, sel) THEN same("none", "AssertionError")
    ELSE
    LET new_selected == increment_index(cs, sel, n)
        new_relative == StepAdd(rel, n)
    IN
    IF n.v = 0 THEN same("none", "")
    ELSE IF n.v > 0 /\ move_down_shifts(rel, n, my)
    THEN IF ~increment_index_asserts(cs, new_selected)
         THEN same("none", "AssertionError")
         ELSE LET new_start == increment_index(cs, new_selected, Fin(1 - my)) IN
              [start |-> new_start, selected |-> new_selected, relative |-> my - 1,
               kind |-> "full", rows |-> redraw_painted(cs, new_start, my),
               err |-> IF redraw_raises(cs, new_start) THEN "IndexError" ELSE ""]
    ELSE IF n.v < 0 /\ move_up_shifts(rel, n)
    THEN [start |-> new_selected, selected |-> new_selected, relative |-> 0,
          kind |-> "full", rows |-> redraw_painted(cs, new_selected, my),
          err |-> IF redraw_raises(cs, new_selected) THEN "IndexError" ELSE ""]
    ELSE IF swap_raises(cs, sel, sel) THEN same("none", "IndexError")
    ELSE IF swap_raises(cs, sel, new_selected) THEN stay("none", {rel}, "IndexError")
    ELSE [start |-> st, selected |-> new_selected, relative |-> new_relative.v,
          kind |-> "swap", rows |-> {rel, new_relative.v}, err |-> ""]

-----------------------------------------------------------------------------
(* Tool.main: one action per key read by getch() *)

(* history.appendleft(c) on a deque of maxlen 3.  Only history[0] ==       *)
(* ord("g") is ever tested, so a key is recorded as "g" or "x".            *)
appendleft(h, c) == SubSeq(<<c>> \o h, 1, Min(Len(h) + 1, HistoryMaxLen))

KeyClass(key) == IF key = "g" THEN "g" ELSE "x"

(* The end of the loop body: count = 0 and history.appendleft(c). *)
EndOfLoop(key) ==
    /\ count' = 0
    /\ history' = appendleft(history, KeyClass(key))

(* A key whose handler is one call of _handle_move(n). *)
MoveKey(key, n) ==
    LET r == handle_move(contests, start, selected, relative, max_y, n) IN
    /\ pc = "running"
    /\ start' = r.start
    /\ selected' = r.selected
    /\ relative' = r.relative
    /\ paint' = Painted("move", n, r.kind, r.rows)
    /\ pc' = IF r.err = "" THEN "running" ELSE r.err
    /\ IF r.err = "" THEN EndOfLoop(key) ELSE UNCHANGED <<count, history>>
    /\ UNCHANGED <<contests, max_y, fn, ui>>

(* "0".."9": count = 10*count + digit; continue *)
KeyDigit ==
    \E d \in 0..9 :
        /\ pc = "running"
        /\ 10 * count + d <= MaxCount
        /\ count' = 10 * count + d
        /\ history' = appendleft(history, "x")
        /\ paint' = Painted("digit", Fin(0), "none", {})
        /\ UNCHANGED <<contests, start, selected, relative, max_y, pc, fn, ui>>

(* KEY_RESIZE: _handle_resize(); continue *)
KeyResize ==
    \E h \in 1..MaxHeight :
        /\ pc = "running"
        /\ max_y' = h
        /\ start' = selected
        /\ relative' = 0
        /\ paint' = Painted("resize", Fin(0), "full", redraw_painted(contests, selected, h))
        /\ pc' = IF redraw_raises(contests, selected) THEN "IndexError" ELSE "running"
        /\ UNCHANGED <<contests, selected, count, history, fn, ui>>

(* "j", KEY_DOWN *)
KeyDown == MoveKey("j", Fin(IF count = 0 THEN 1 ELSE count))

(* "k", KEY_UP *)
KeyUp == MoveKey("k", Fin(IF count = 0 THEN -1 ELSE -count))

(* KEY_NPAGE *)
KeyNPage == MoveKey("NPAGE", Fin(IF count = 0 THEN 10 ELSE 10 * count))

(* KEY_PPAGE *)
KeyPPage == MoveKey("PPAGE", Fin(IF count = 0 THEN -10 ELSE -10 * count))

(* KEY_HOME, or "g" when history[0] is "g" *)
KeyHome ==
    \E key \in {"HOME", "g"} :
        /\ key = "g" => (history # <<>> /\ history[1] = "g")
        /\ MoveKey(key, NegInf)

(* KEY_END, "G" *)
KeyEnd == MoveKey("G", PosInf)

(* contest = self._contests[contest_index] raises IndexError when the     *)
(* list has no such contest (an empty list); the key is then not handled.  *)
contest_lookup_raises(op) ==
    /\ IndexError(Len(contests), selected[1])
    /\ pc' = "IndexError"
    /\ paint' = Painted(op, Fin(0), "none", {})
    /\ UNCHANGED <<contests, count, history>>

(* SetExpanded on the contest of self._start instead of self._selected. *)
SetExpanded_at_start(op, e) ==
    /\ contests' = [contests EXCEPT ![start[1] + 1].expanded = e]
    /\ paint' = Painted(op, Fin(0), "full", redraw_painted(contests', start, max_y))
    /\ pc' = IF redraw_raises(contests', start) THEN "IndexError" ELSE "running"
    /\ IF pc' = "running" THEN EndOfLoop(op) ELSE UNCHANGED <<count, history>>

(* contest.expanded = e on the selected contest, then _redraw() *)
SetExpanded(op, e) ==
    /\ contests' = [contests EXCEPT ![selected[1] + 1].expanded = e]
    /\ paint' = Painted(op, Fin(0), "full", redraw_painted(contests', start, max_y))
    /\ pc' = IF redraw_raises(contests', start) THEN "IndexError" ELSE "running"
    /\ IF pc' = "running" THEN EndOfLoop(op) ELSE UNCHANGED <<count, history>>

(* "l", KEY_RIGHT: expand the selected contest, or load_problem *)
KeyRight ==
    /\ pc = "running"
    /\ IF IndexError(Len(contests), selected[1])
       THEN contest_lookup_raises("expand")
       ELSE IF selected[2] = None
       THEN SetExpanded("expand", TRUE)
       ELSE /\ pc' = IF IndexError(contests[selected[1] + 1].len, selected[2][1])
                     THEN "IndexError" ELSE "running"
            /\ paint' = Painted("load", Fin(0), "none", {})
            /\ IF pc' = "running" THEN EndOfLoop("l") ELSE UNCHANGED <<count, history>>
            /\ UNCHANGED contests
    /\ UNCHANGED <<start, selected, relative, max_y, fn, ui>>

(* "h", KEY_LEFT: from a problem move up to its contest and collapse it;   *)
(* on an expanded contest collapse it                                      *)
KeyLeft ==
    /\ pc = "running"
    /\ IF IndexError(Len(contests), selected[1])
       THEN contest_lookup_raises("collapse") /\ UNCHANGED <<start, selected, relative>>
       ELSE IF selected[2] # None
       THEN LET r == handle_move(contests, start, selected, relative, max_y,
                                 Fin(-selected[2][1] - 1))
            IN /\ start' = r.start
               /\ selected' = r.selected
               /\ relative' = r.relative
               /\ IF r.err # ""
                  THEN /\ pc' = r.err
                       /\ paint' = Painted("collapse", Fin(-selected[2][1] - 1), r.kind, r.rows)
                       /\ UNCHANGED <<contests, count, history>>
                  ELSE /\ contests' = [contests EXCEPT ![selected[1] + 1].expanded = FALSE]
                       /\ paint' = Painted("collapse", Fin(-selected[2][1] - 1), "full",
                                        redraw_painted(contests', r.start, max_y))
                       /\ pc' = IF redraw_raises(contests', r.start)
                                THEN "IndexError" ELSE "running"
                       /\ IF pc' = "running" THEN EndOfLoop("h")
                          ELSE UNCHANGED <<count, history>>
       ELSE IF contests[selected[1] + 1].expanded
            THEN SetExpanded("collapse", FALSE) /\ UNCHANGED <<start, selected, relative>>
            ELSE /\ paint' = Painted("collapse", Fin(0), "none", {})
                 /\ EndOfLoop("h")
                 /\ UNCHANGED <<contests, start, selected, relative, pc>>
    /\ UNCHANGED <<max_y, fn, ui>>

(* "\n": load the selected problem, or toggle the selected contest *)
KeyEnter ==
    /\ pc = "running"
    /\ IF IndexError(Len(contests), selected[1])
       THEN contest_lookup_raises("toggle")
       ELSE IF selected[2] # None
       THEN /\ pc' = IF IndexError(contests[selected[1] + 1].len, selected[2][1])
                     THEN "IndexError" ELSE "running"
            /\ paint' = Painted("load", Fin(0), "none", {})
            /\ IF pc' = "running" THEN EndOfLoop("ENTER") ELSE UNCHANGED <<count, history>>
            /\ UNCHANGED contests
       ELSE SetExpanded("toggle", ~contests[selected[1] + 1].expanded)
    /\ UNCHANGED <<start, selected, relative, max_y, fn, ui>>

(* Ctrl+e, Ctrl+y, a first "g" and every unhandled key *)
KeyOther ==
    \E key \in {"g", "x"} :
        /\ pc = "running"
        /\ key = "g" => ~(history # <<>> /\ history[1] = "g")
        /\ paint' = Painted("other", Fin(0), "none", {})
        /\ EndOfLoop(key)
        /\ UNCHANGED <<contests, start, selected, relative, max_y, pc, fn, ui>>

(* "q": break *)
KeyQuit ==
    /\ pc = "running"
    /\ pc' = "quit"
    /\ paint' = Painted("quit", Fin(0), "none", {})
    /\ UNCHANGED <<contests, start, selected, relative, max_y, count, history, fn, ui>>

-----------------------------------------------------------------------------
(* The catalogue: get_contests() files every problem under its contest, so *)
(* a contest of the list has at least one problem; all start collapsed.    *)

MinItems == 1

Catalogues ==
    UNION {[1..g -> {ContestItem(len, FALSE) : len \in MinItems..MaxItems}] : g \in 1..MaxGroups}

FnIdle == [op |-> "none", a |-> <<0, None>>, n |-> Fin(0), b |-> <<0, None>>,
           raised |-> FALSE, res |-> <<0, None>>, cmp |-> 0, after |-> "none",
           iters |-> 0]

(* The CursesUI before it is constructed. *)
UiIdle == [index |-> 0, viewport_start |-> 0, selection |-> 0, typed |-> <<>>,
           key |-> "", op |-> "none", n |-> Fin(0), rows |-> {},
           cur |-> <<"root">>, stack |-> <<>>, drilled |-> <<>>, cat |-> <<>>,
           saved |-> [root |-> None, cat |-> None, contest |-> <<>>],
           left |-> [root |-> None, cat |-> None, contest |-> <<>>],
           client |-> None, command |-> <<>>, bar |-> "",
           action |-> [name |-> "none", entry |-> <<>>], fetch |-> "none",
           counted |-> FALSE]

(* Tool.__init__ followed by the _handle_resize() that opens Tool.main. *)
Init ==
    /\ contests \in Catalogues
    /\ start = <<0, None>>
    /\ selected = <<0, None>>
    /\ relative = 0
    /\ max_y \in 1..MaxHeight
    /\ count = 0
    /\ history = <<>>
    /\ paint = Painted("resize", Fin(0), "full", redraw_rows(max_y))
    /\ pc = "running"
    /\ fn = FnIdle
    /\ ui = UiIdle

Next ==
    \/ KeyDigit
    \/ KeyResize
    \/ KeyDown
    \/ KeyUp
    \/ KeyNPage
    \/ KeyPPage
    \/ KeyHome
    \/ KeyEnd
    \/ KeyRight
    \/ KeyLeft
    \/ KeyEnter
    \/ KeyOther
    \/ KeyQuit

Spec == Init /\ [][Next]_vars

-----------------------------------------------------------------------------
(* The navigator over any list of contests: Tool takes whatever            *)
(* get_contests() returned, and ContestItem is a list that may be empty.   *)

AnyCatalogues ==
    UNION {[1..g -> {ContestItem(len, FALSE) : len \in 0..MaxItems}] : g \in 0..MaxGroups}

InitAny ==
    /\ contests \in AnyCatalogues
    /\ start = <<0, None>>
    /\ selected = <<0, None>>
    /\ relative = 0
    /\ max_y \in 1..MaxHeight
    /\ count = 0
    /\ history = <<>>
    /\ paint = Painted("resize", Fin(0), "full", redraw_rows(max_y))
    /\ pc = "running"
    /\ fn = FnIdle
    /\ ui = UiIdle

SpecAny == InitAny /\ [][Next]_vars

-----------------------------------------------------------------------------
(* SpecFn: _increment_index and _compare_indices on bounded arguments *)

(* Every outline of the bounds: empty contests and any expanded flags. *)
Outlines ==
    UNION {[1..g -> {ContestItem(len, e) : len \in 0..MaxItems, e \in BOOLEAN}] : g \in 1..MaxGroups}

(* Index pairs, those that address no slot included. *)
ArgPositions ==
    {<<g, p>> : g \in (-1)..MaxGroups, p \in {None} \cup {Some(k) : k \in (-1)..MaxItems}}

(* Index pairs of the shape of a position: a group of the bounds and None  *)
(* or an item number of the bounds.                                        *)
WellFormedPositions ==
    {<<g, p>> : g \in 0..(MaxGroups - 1), p \in {None} \cup {Some(k) : k \in 0..(MaxItems - 1)}}

Steps ==
    {Fin(v) : v \in (-MaxStep)..MaxStep} \cup {Fin(HugeStep), Fin(-HugeStep), PosInf, NegInf}

StepKind(n) == IF n.k = "fin" THEN "finite" ELSE IF n.v > 0 THEN "last" ELSE "first"

(* The record of the call _increment_index(index, n); after tells which    *)
(* kind of step produced index when it is the result of the previous call. *)
IncrementCall(cs, index, n, after) ==
    LET ok == increment_index_asserts(cs, index) IN
    [op |-> "increment", a |-> index, n |-> n, b |-> <<0, None>>,
     raised |-> ~ok,
     res |-> IF ok THEN increment_index(cs, index, n) ELSE <<0, None>>,
     cmp |-> 0, after |-> after,
     iters |-> IF ok THEN increment_index_iterations(cs, index, n) ELSE 0]

(* The record of the call _compare_indices(a, b); n is the step that       *)
(* produced b from a when after is "increment".                            *)
CompareCall(a, b, n, after) ==
    [op |-> "compare", a |-> a, n |-> n, b |-> b, raised |-> FALSE,
     res |-> <<0, None>>, cmp |-> compare_indices(a, b), after |-> after, iters |-> 0]

FnIncrement ==
    \E index \in ArgPositions, n \in Steps :
        /\ fn.op = "none"
        /\ fn' = IncrementCall(contests, index, n, "none")
        /\ UNCHANGED <<contests, start, selected, relative, max_y, count, history, paint, pc, ui>>

(* _increment_index applied to the result of the previous call on a valid  *)
(* position.                                                               *)
FnIncrementAgain ==
    \E n \in Steps :
        /\ fn.op = "increment" /\ ~fn.raised /\ fn.after = "none"
        /\ IsValid(contests, fn.a)
        /\ fn' = IncrementCall(contests, fn.res, n, StepKind(fn.n))
        /\ UNCHANGED <<contests, start, selected, relative, max_y, count, history, paint, pc, ui>>

FnCompare ==
    \E a \in WellFormedPositions, b \in WellFormedPositions :
        /\ fn.op = "none"
        /\ fn' = CompareCall(a, b, Fin(0), "none")
        /\ UNCHANGED <<contests, start, selected, relative, max_y, count, history, paint, pc, ui>>

(* _compare_indices(a, _increment_index(a, n)) for a valid position a *)
FnCompareNext ==
    /\ fn.op = "increment" /\ ~fn.raised /\ fn.after = "none"
    /\ IsValid(contests, fn.a)
    /\ fn' = CompareCall(fn.a, fn.res, fn.n, "increment")
    /\ UNCHANGED <<contests, start, selected, relative, max_y, count, history, paint, pc, ui>>

InitFn ==
    /\ contests \in Outlines
    /\ start = <<0, None>>
    /\ selected = <<0, None>>
    /\ relative = 0
    /\ max_y = 1
    /\ count = 0
    /\ history = <<>>
    /\ paint = Painted("none", Fin(0), "none", {})
    /\ pc = "running"
    /\ fn = FnIdle
    /\ ui = UiIdle

NextFn ==
    \/ FnIncrement
    \/ FnIncrementAgain
    \/ FnCompare
    \/ FnCompareNext

SpecFn == InitFn /\ [][NextFn]_vars

-----------------------------------------------------------------------------
(* competitive_programming_client.py: CursesUI and the key loop of Tool.main. *)
(* max_y is the height screen.getmaxyx() returns, count and history the    *)
(* locals of this Tool.main.  In the record ui: index and viewport_start   *)
(* are the fields of CursesUI, selection is len(self._selection), typed    *)
(* the digits read since count was reset, cur the container that is        *)
(* self._current_selection, stack self._stack, cat the contests of the     *)
(* container at index 0 of the root (the number of problems of each),      *)
(* saved the status attribute of every container, client self._client,     *)
(* command the local command, bar the text of the status bar, action the   *)
(* method the last key called with the selected entry, fetch the outcome   *)
(* of get_catalogue, drilled the status the user interface had at each     *)
(* _go_down_level that pushed a container, left the status the user        *)
(* interface had when each container was left by _go_up_level (None for a  *)
(* container that was never left, or is entered) and counted whether count *)
(* was not 0 when the last key was read.                                   *)

(* move_selection stopping one past the last entry *)
move_selection_clamps_to_len(index, viewport_start, len, my, n) ==
    LET sum == StepAdd(index, n)
        new_index == IF StepLt(sum, 0) THEN 0
                     ELSE IF StepGe(sum, len) THEN len
                     ELSE sum.v
    IN [index |-> new_index,
        viewport_start |->
            IF new_index < viewport_start THEN new_index
            ELSE IF new_index >= viewport_start + my - 1 THEN new_index - my + 2
            ELSE viewport_start]

(* move_selection scrolling down by the whole height of the window *)
move_selection_onto_status_row(index, viewport_start, len, my, n) ==
    LET sum == StepAdd(index, n)
        new_index == IF StepLt(sum, 0) THEN 0
                     ELSE IF StepGe(sum, len) THEN len - 1
                     ELSE sum.v
    IN [index |-> new_index,
        viewport_start |->
            IF new_index < viewport_start THEN new_index
            ELSE IF new_index >= viewport_start + my THEN new_index - my + 1
            ELSE viewport_start]

(* move_selection putting the selected entry on the first line every time *)
move_selection_always_pins(index, viewport_start, len, my, n) ==
    LET sum == StepAdd(index, n)
        new_index == IF StepLt(sum, 0) THEN 0
                     ELSE IF StepGe(sum, len) THEN len - 1
                     ELSE sum.v
    IN [index |-> new_index,
        viewport_start |->
            IF new_index >= viewport_start + my - 1 THEN new_index - my + 2
            ELSE new_index]

(* CursesUI.move_selection(n): the new _index and _viewport_start. *)
move_selection(index, viewport_start, len, my, n) ==
    LET sum == StepAdd(index, n)
        new_index == IF StepLt(sum, 0) THEN 0
                     ELSE IF StepGe(sum, len) THEN len - 1
                     ELSE sum.v
    IN [index |-> new_index,
        viewport_start |->
            IF new_index < viewport_start THEN new_index
            ELSE IF new_index >= viewport_start + my - 1 THEN new_index - my + 2
            ELSE viewport_start]

(* CursesUI.move_viewport(n): the new _viewport_start. *)
move_viewport(viewport_start, n) == viewport_start + n

(* The lines _refresh_viewport writes, and the line of set_status_bar. *)
refresh_viewport_rows(my) == 0..(my - 2)
status_bar_row(my) == my - 1

(* CursesUI.status *)
ui_status(u) == <<u.index, u.viewport_start>>

(* set_selection restoring nothing: _index = 0, _viewport_start = 0 *)
set_selection_from_top(status) == [index |-> 0, viewport_start |-> 0]

(* CursesUI.set_selection(selection, status=status): the new _index and    *)
(* _viewport_start.                                                        *)
set_selection(status) ==
    IF status = None THEN [index |-> 0, viewport_start |-> 0]
    ELSE [index |-> status[1], viewport_start |-> status[2]]

(* The containers: the root, the catalogue at its index 0, the contests. *)
RootContainer == <<"root">>
CatalogueContainer == <<"catalogue">>
ContestContainer(k) == <<"contest", k>>

IsContest(c) == Len(c) = 2

(* len() of a container *)
container_len(u, c) ==
    IF c = RootContainer THEN RootEntries
    ELSE IF c = CatalogueContainer THEN Len(u.cat)
    ELSE u.cat[c[2] + 1]

(* The status attribute of a container *)
container_status(saved, c) ==
    IF c = RootContainer THEN saved.root
    ELSE IF c = CatalogueContainer THEN saved.cat
    ELSE saved.contest[c[2] + 1]

(* container.status = status *)
with_status(saved, c, status) ==
    IF c = RootContainer THEN [saved EXCEPT !.root = status]
    ELSE IF c = CatalogueContainer THEN [saved EXCEPT !.cat = status]
    ELSE [saved EXCEPT !.contest[c[2] + 1] = status]

(* self._current_selection[index] raises IndexError *)
getitem_raises(len, index) == ~(-len <= index /\ index < len)

(* The position of self._current_selection[index] in the list *)
getitem(len, index) == IF index < 0 THEN len + index ELSE index

NoAction == [name |-> "none", entry |-> <<>>]
ExternalCall(name, u) ==
    [name |-> name, entry |-> <<u.cur[2], getitem(u.selection, u.index)>>]

(* The record at the top of the loop body: no external call made yet,      *)
(* counted tells whether a count was pending when the key was read.        *)
Fresh(u) == [u EXCEPT !.action = NoAction, !.fetch = "none", !.counted = (count # 0)]

(* The part of the record every key that reaches the end of the loop body  *)
(* sets.                                                                   *)
Handled(u, key, op, n, rows, bar) ==
    [u EXCEPT !.typed = <<>>, !.key = key, !.op = op, !.n = n, !.rows = rows, !.bar = bar]

(* UiEndOfLoop without count = 0. *)
UiEndOfLoop_keeps_count(key, add_to_history) ==
    /\ count' = count
    /\ history' = IF add_to_history THEN appendleft(history, KeyClass(key)) ELSE <<>>

(* The end of the loop body: count = 0, set_status_bar and, unless told    *)
(* otherwise, history.appendleft(c).                                       *)
UiEndOfLoop(key, add_to_history) ==
    /\ count' = 0
    /\ history' = IF add_to_history THEN appendleft(history, KeyClass(key)) ELSE <<>>

(* A key whose handler is one call of move_selection(n). *)
UiMoveKey(key, n, add_to_history) ==
    LET r == move_selection(ui.index, ui.viewport_start, ui.selection, max_y, n) IN
    /\ pc = "running"
    /\ ui.command = <<>>
    /\ ui' = [Handled(Fresh(ui), key, "move_selection", n,
                      refresh_viewport_rows(max_y) \cup {status_bar_row(max_y)},
                      IF key = "gg" THEN "gg" ELSE "chr(c)")
                EXCEPT !.index = r.index, !.viewport_start = r.viewport_start]
    /\ UiEndOfLoop(key, add_to_history)
    /\ UNCHANGED <<contests, start, selected, relative, max_y, paint, pc, fn>>

(* A key whose handler is one call of move_viewport(n). *)
UiScrollKey(key, n) ==
    /\ pc = "running"
    /\ ui.command = <<>>
    /\ move_viewport(ui.viewport_start, n) \in (-MaxScroll)..(ui.selection + MaxScroll)
    /\ ui' = [Handled(Fresh(ui), key, "move_viewport", Fin(n),
                      refresh_viewport_rows(max_y) \cup {status_bar_row(max_y)}, "chr(c)")
                EXCEPT !.viewport_start = move_viewport(ui.viewport_start, n)]
    /\ UiEndOfLoop(key, TRUE)
    /\ UNCHANGED <<contests, start, selected, relative, max_y, paint, pc, fn>>

(* UiDigit with count = count + digit. *)
UiDigit_adds ==
    \E d \in 0..9 :
        /\ pc = "running"
        /\ ui.command = <<>>
        /\ 10 * count + d <= MaxUiCount
        /\ Len(ui.typed) < MaxTyped
        /\ count' = count + d
        /\ ui' = [ui EXCEPT !.typed = Append(ui.typed, d), !.key = "digit", !.op = "none",
                            !.n = Fin(0), !.rows = {}, !.action = NoAction,
                            !.fetch = "none", !.counted = (count # 0)]
        /\ UNCHANGED <<contests, start, selected, relative, max_y, history, paint, pc, fn>>

(* "0".."9": count = 10*count + digit; continue *)
UiDigit ==
    \E d \in 0..9 :
        /\ pc = "running"
        /\ ui.command = <<>>
        /\ 10 * count + d <= MaxUiCount
        /\ Len(ui.typed) < MaxTyped
        /\ count' = 10 * count + d
        /\ ui' = [ui EXCEPT !.typed = Append(ui.typed, d), !.key = "digit", !.op = "none",
                            !.n = Fin(0), !.rows = {}, !.action = NoAction,
                            !.fetch = "none", !.counted = (count # 0)]
        /\ UNCHANGED <<contests, start, selected, relative, max_y, history, paint, pc, fn>>

(* UiResize with count = 0 after the refresh. *)
UiResize_resets_count ==
    \E h \in 1..MaxUiHeight :
        /\ pc = "running"
        /\ ui.command = <<>>
        /\ max_y' = h
        /\ count' = 0
        /\ ui' = [ui EXCEPT !.key = "RESIZE", !.op = "refresh", !.n = Fin(0),
                            !.rows = refresh_viewport_rows(h) \cup {status_bar_row(h)},
                            !.action = NoAction, !.fetch = "none",
                            !.counted = (count # 0)]
        /\ UNCHANGED <<contests, start, selected, relative, history, paint, pc, fn>>

(* KEY_RESIZE: self._ui.refresh(); continue *)
UiResize ==
    \E h \in 1..MaxUiHeight :
        /\ pc = "running"
        /\ ui.command = <<>>
        /\ max_y' = h
        /\ count' = count
        /\ ui' = [ui EXCEPT !.key = "RESIZE", !.op = "refresh", !.n = Fin(0),
                            !.rows = refresh_viewport_rows(h) \cup {status_bar_row(h)},
                            !.action = NoAction, !.fetch = "none",
                            !.counted = (count # 0)]
        /\ UNCHANGED <<contests, start, selected, relative, history, paint, pc, fn>>

(* "j", KEY_DOWN *)
UiDown == UiMoveKey("j", Fin(IF count = 0 THEN 1 ELSE count), TRUE)

(* "k", KEY_UP *)
UiUp == UiMoveKey("k", Fin(IF count = 0 THEN -1 ELSE -count), TRUE)

(* KEY_NPAGE *)
UiNPage == UiMoveKey("NPAGE", Fin(IF count = 0 THEN 10 ELSE 10 * count), TRUE)

(* KEY_PPAGE *)
UiPPage == UiMoveKey("PPAGE", Fin(IF count = 0 THEN -10 ELSE -10 * count), TRUE)

(* KEY_HOME *)
UiHome == UiMoveKey("HOME", NegInf, TRUE)

(* "g" when history[0] is "g": history.clear(), add_to_history = False *)
UiGG ==
    /\ history # <<>> /\ history[1] = "g"
    /\ UiMoveKey("gg", NegInf, FALSE)

(* KEY_END, "G" *)
UiEnd == UiMoveKey("G", PosInf, TRUE)

(* Ctrl+e *)
UiScrollDown == UiScrollKey("Ctrl+e", IF count = 0 THEN 1 ELSE count)

(* Ctrl+y *)
UiScrollUp == UiScrollKey("Ctrl+y", IF count = 0 THEN -1 ELSE -count)

(* A first "g" and every key without special handling *)
UiOther ==
    \E key \in {"g", "x"} :
        /\ pc = "running"
        /\ ui.command = <<>>
        /\ key = "g" => ~(history # <<>> /\ history[1] = "g")
        /\ ui' = Handled(Fresh(ui), key, "none", Fin(0), {status_bar_row(max_y)}, "chr(c)")
        /\ UiEndOfLoop(key, TRUE)
        /\ UNCHANGED <<contests, start, selected, relative, max_y, paint, pc, fn>>

(* Tool.__init__ and Tool.__call__: CursesUI(screen), set_selection of the *)
(* root selection.                                                         *)
ToolStart(my) ==
    [UiIdle EXCEPT !.selection = RootEntries, !.op = "set_selection",
                   !.rows = refresh_viewport_rows(my) \cup {status_bar_row(my)}]

InitUI ==
    /\ contests = <<>>
    /\ start = <<0, None>>
    /\ selected = <<0, None>>
    /\ relative = 0
    /\ max_y \in 1..MaxUiHeight
    /\ count = 0
    /\ history = <<>>
    /\ paint = Painted("none", Fin(0), "none", {})
    /\ pc = "running"
    /\ fn = FnIdle
    /\ ui = ToolStart(max_y)

NextUI ==
    \/ UiDigit
    \/ UiResize
    \/ UiDown
    \/ UiUp
    \/ UiNPage
    \/ UiPPage
    \/ UiHome
    \/ UiGG
    \/ UiEnd
    \/ UiScrollDown
    \/ UiScrollUp
    \/ UiOther

SpecUI == InitUI /\ [][NextUI]_vars

-----------------------------------------------------------------------------
(* competitive_programming_client.py: CursesUI.move_selection on its own   *)

MaxEntries == 5

(* The steps move_selection is called with: the ones of the keys, steps    *)
(* around the length of the list, a huge one and the two infinities.       *)
MoveSteps ==
    {Fin(v) : v \in (-(MaxEntries + 1)..(MaxEntries + 1)) \cup {10, -10, HugeStep, -HugeStep}}
        \cup {PosInf, NegInf}

(* One call of move_selection(n) on a CursesUI with the given _index,      *)
(* _viewport_start, len(_selection) and _max_y, and what it assigns.       *)
MoveCall(index, viewport_start, len, my, n) ==
    [op |-> "move_selection", index |-> index, viewport_start |-> viewport_start,
     len |-> len, my |-> my, n |-> n,
     res |-> move_selection(index, viewport_start, len, my, n)]

(* move_selection(n) on a non-empty selection, with the _viewport_start    *)
(* set_selection, move_selection or move_viewport may have left.           *)
FnMoveSelection ==
    /\ fn.op = "none"
    /\ \E len \in 1..MaxEntries, my \in 1..MaxUiHeight, n \in MoveSteps :
       \E index \in 0..(len - 1), viewport_start \in (-MaxScroll)..(len + MaxScroll) :
           fn' = MoveCall(index, viewport_start, len, my, n)
    /\ UNCHANGED <<contests, start, selected, relative, max_y, count, history, paint, pc, ui>>

InitMove ==
    /\ contests = <<>>
    /\ start = <<0, None>>
    /\ selected = <<0, None>>
    /\ relative = 0
    /\ max_y = 1
    /\ count = 0
    /\ history = <<>>
    /\ paint = Painted("none", Fin(0), "none", {})
    /\ pc = "running"
    /\ fn = FnIdle
    /\ ui = UiIdle

NextMove ==
    \/ FnMoveSelection

SpecMove == InitMove /\ [][NextMove]_vars

-----------------------------------------------------------------------------
(* competitive_programming_client.py: the level stack and the command mode *)
(* of Tool.main                                                            *)

MaxContests == 1
MaxProblems == 1
MaxCommand == 2
MaxToolHeight == 2
MaxToolCount == 1

(* The entry of the root selection that is named after a client class. *)
CodeforcesEntry == 0

EDIT == <<":", "e", "d", "i", "t">>
TEST == <<":", "t", "e", "s", "t">>
COMPILE == <<":", "c", "o", "m", "p", "i", "l", "e">>
SUBMIT == <<":", "s", "u", "b", "m", "i", "t">>

(* The characters typed in command mode: letters of the commands, a        *)
(* space, a digit and the letter of the down key.                          *)
CommandChars == {"e", "s", "c", "t", "q", " ", "1", "j"}

(* What get_catalogue() can do: return a catalogue of contests, each with  *)
(* at least one problem, or raise ResponseError.                           *)
ToolCatalogues == UNION {[1..g -> 1..MaxProblems] : g \in 0..MaxContests}
CatalogueOutcomes ==
    {[ok |-> TRUE, catalogue |-> c] : c \in ToolCatalogues}
        \cup {[ok |-> FALSE, catalogue |-> <<>>]}

(* "self._current_selection.status = status" and the lines after it in     *)
(* _go_down_level: the container becomes the top of the stack, child the   *)
(* current selection.                                                      *)
go_down_push(u, child) ==
    LET status == ui_status(u)
        saved == with_status(u.saved, u.cur, status)
        r == set_selection(container_status(saved, child))
    IN [u EXCEPT !.saved = saved,
                 !.left = with_status(u.left, child, None),
                 !.stack = Append(u.stack, u.cur),
                 !.drilled = Append(u.drilled, status),
                 !.cur = child,
                 !.selection = container_len(u, child),
                 !.index = r.index,
                 !.viewport_start = r.viewport_start]

(* _go_down_level taking every entry of the root for the one of a client *)
go_down_level_for_any_entry(u, outcome) ==
    LET i == getitem(u.selection, u.index) IN
    IF getitem_raises(u.selection, u.index) THEN [u |-> u, raised |-> "IndexError"]
    ELSE IF IsContest(u.cur)
        THEN [u |-> [u EXCEPT !.action = ExternalCall("load_problem", u)], raised |-> "none"]
    ELSE IF u.stack = <<>> THEN
        IF i < CodeforcesEntry THEN [u |-> u, raised |-> "none"]
        ELSE LET c == [u EXCEPT !.client = Some("Codeforces")] IN
             IF c.cat = <<>> THEN
                 IF outcome.ok
                 THEN [u |-> go_down_push(
                                [c EXCEPT !.cat = outcome.catalogue,
                                          !.saved.cat = None,
                                          !.saved.contest = [k \in 1..Len(outcome.catalogue) |-> None],
                                          !.left.cat = None,
                                          !.left.contest = [k \in 1..Len(outcome.catalogue) |-> None],
                                          !.fetch = "loaded"],
                                CatalogueContainer),
                       raised |-> "none"]
                 ELSE [u |-> [c EXCEPT !.fetch = "failed"], raised |-> "ResponseError"]
             ELSE [u |-> go_down_push(c, CatalogueContainer), raised |-> "none"]
    ELSE [u |-> go_down_push(u, ContestContainer(i)), raised |-> "none"]

(* Tool._go_down_level() when get_catalogue() answers outcome: the new     *)
(* record and the exception that leaves the method, if any.                *)
go_down_level(u, outcome) ==
    LET i == getitem(u.selection, u.index) IN
    IF getitem_raises(u.selection, u.index) THEN [u |-> u, raised |-> "IndexError"]
    ELSE IF IsContest(u.cur)
        THEN [u |-> [u EXCEPT !.action = ExternalCall("load_problem", u)], raised |-> "none"]
    ELSE IF u.stack = <<>> THEN
        IF i # CodeforcesEntry THEN [u |-> u, raised |-> "none"]
        ELSE LET c == [u EXCEPT !.client = Some("Codeforces")] IN
             IF c.cat = <<>> THEN
                 IF outcome.ok
                 THEN [u |-> go_down_push(
                                [c EXCEPT !.cat = outcome.catalogue,
                                          !.saved.cat = None,
                                          !.saved.contest = [k \in 1..Len(outcome.catalogue) |-> None],
                                          !.left.cat = None,
                                          !.left.contest = [k \in 1..Len(outcome.catalogue) |-> None],
                                          !.fetch = "loaded"],
                                CatalogueContainer),
                       raised |-> "none"]
                 ELSE [u |-> [c EXCEPT !.fetch = "failed"], raised |-> "ResponseError"]
             ELSE [u |-> go_down_push(c, CatalogueContainer), raised |-> "none"]
    ELSE [u |-> go_down_push(u, ContestContainer(i)), raised |-> "none"]

(* _go_up_level without self._stack.pop(): the parent stays on the stack. *)
go_up_level_without_pop(u) ==
    IF u.stack # <<>> THEN
        LET saved == with_status(u.saved, u.cur, ui_status(u))
            selection == u.stack[Len(u.stack)]
            r == set_selection(container_status(saved, selection))
        IN [u EXCEPT !.saved = saved,
                     !.left = with_status(u.left, u.cur, ui_status(u)),
                     !.cur = selection,
                     !.selection = container_len(u, selection),
                     !.index = r.index,
                     !.viewport_start = r.viewport_start]
    ELSE u

(* _go_up_level without "self._client = None" *)
go_up_level_keeps_client(u) ==
    IF u.stack # <<>> THEN
        LET saved == with_status(u.saved, u.cur, ui_status(u))
            selection == u.stack[Len(u.stack)]
            stack == SubSeq(u.stack, 1, Len(u.stack) - 1)
            r == set_selection(container_status(saved, selection))
        IN [u EXCEPT !.saved = saved,
                     !.left = with_status(u.left, u.cur, ui_status(u)),
                     !.stack = stack,
                     !.drilled = SubSeq(u.drilled, 1, Len(u.drilled) - 1),
                     !.cur = selection,
                     !.selection = container_len(u, selection),
                     !.index = r.index,
                     !.viewport_start = r.viewport_start]
    ELSE u

(* _go_up_level without "self._current_selection.status = self._ui.status" *)
go_up_level_without_status(u) ==
    IF u.stack # <<>> THEN
        LET selection == u.stack[Len(u.stack)]
            stack == SubSeq(u.stack, 1, Len(u.stack) - 1)
            r == set_selection(container_status(u.saved, selection))
        IN [u EXCEPT !.left = with_status(u.left, u.cur, ui_status(u)),
                     !.stack = stack,
                     !.drilled = SubSeq(u.drilled, 1, Len(u.drilled) - 1),
                     !.cur = selection,
                     !.selection = container_len(u, selection),
                     !.index = r.index,
                     !.viewport_start = r.viewport_start,
                     !.client = IF stack = <<>> THEN None ELSE u.client]
    ELSE u

(* Tool._go_up_level() *)
go_up_level(u) ==
    IF u.stack # <<>> THEN
        LET saved == with_status(u.saved, u.cur, ui_status(u))
            selection == u.stack[Len(u.stack)]
            stack == SubSeq(u.stack, 1, Len(u.stack) - 1)
            r == set_selection(container_status(saved, selection))
        IN [u EXCEPT !.saved = saved,
                     !.left = with_status(u.left, u.cur, ui_status(u)),
                     !.stack = stack,
                     !.drilled = SubSeq(u.drilled, 1, Len(u.drilled) - 1),
                     !.cur = selection,
                     !.selection = container_len(u, selection),
                     !.index = r.index,
                     !.viewport_start = r.viewport_start,
                     !.client = IF stack = <<>> THEN None ELSE u.client]
    ELSE u

(* "l", KEY_RIGHT, "\n": self._go_down_level() *)
UiGoDown ==
    \E outcome \in CatalogueOutcomes :
        LET r == go_down_level(Fresh(ui), outcome)
            moved == r.u.cur # ui.cur
        IN
        /\ pc = "running"
        /\ ui.command = <<>>
        /\ IF r.raised # "none"
           THEN /\ pc' = r.raised
                /\ ui' = [r.u EXCEPT !.key = "l", !.op = "go_down", !.n = Fin(0),
                                     !.rows = IF r.raised = "ResponseError"
                                              THEN refresh_viewport_rows(max_y) ELSE {}]
                /\ UNCHANGED <<count, history>>
           ELSE /\ pc' = pc
                /\ ui' = Handled(r.u, "l", "go_down", Fin(0),
                                 (IF moved THEN refresh_viewport_rows(max_y) ELSE {})
                                     \cup {status_bar_row(max_y)},
                                 "chr(c)")
                /\ UiEndOfLoop("l", TRUE)
        /\ UNCHANGED <<contests, start, selected, relative, max_y, paint, fn>>

(* "h", KEY_LEFT, KEY_BACKSPACE: self._go_up_level() *)
UiGoUp ==
    /\ pc = "running"
    /\ ui.command = <<>>
    /\ ui' = Handled(go_up_level(Fresh(ui)), "h", "go_up", Fin(0),
                     (IF ui.stack # <<>> THEN refresh_viewport_rows(max_y) ELSE {})
                         \cup {status_bar_row(max_y)},
                     "chr(c)")
    /\ UiEndOfLoop("h", TRUE)
    /\ UNCHANGED <<contests, start, selected, relative, max_y, paint, pc, fn>>

(* ":": command = ":", history.clear(), add_to_history = False *)
UiColon ==
    /\ pc = "running"
    /\ ui.command = <<>>
    /\ ui' = [Handled(Fresh(ui), ":", "none", Fin(0), {status_bar_row(max_y)}, "command")
                EXCEPT !.command = <<":">>]
    /\ UiEndOfLoop(":", FALSE)
    /\ UNCHANGED <<contests, start, selected, relative, max_y, paint, pc, fn>>

(* str.split(): the words of a string *)
RECURSIVE word_len(_)
word_len(s) == IF s = <<>> \/ Head(s) = " " THEN 0 ELSE 1 + word_len(Tail(s))

RECURSIVE split(_)
split(s) ==
    IF s = <<>> THEN <<>>
    ELSE IF Head(s) = " " THEN split(Tail(s))
    ELSE <<SubSeq(s, 1, word_len(s))>> \o split(SubSeq(s, word_len(s) + 1, Len(s)))

(* str.startswith *)
startswith(s, prefix) ==
    Len(prefix) <= Len(s) /\ SubSeq(s, 1, Len(prefix)) = prefix

(* "q" in command[0] and set(command[0]).issubset(":wqa!") *)
is_quit(word) ==
    /\ \E i \in 1..Len(word) : word[i] = "q"
    /\ \A i \in 1..Len(word) : word[i] \in {":", "w", "q", "a", "!"}

(* self._language is the class Tool.__init__ picked, not an instance of    *)
(* it, so self._language.compile(solution_path) raises TypeError.          *)
language_compile_raises == "TypeError"

(* _handle_command with every selected entry taken for a Problem. *)
handle_command_for_any_entry(u, command) ==
    IF startswith(EDIT, command[1]) /\ Len(command) = 1
        THEN [action |-> [name |-> "_edit", entry |-> u.cur \o <<getitem(u.selection, u.index)>>],
              status_bar |-> "", refresh |-> TRUE, raised |-> "none"]
    ELSE [action |-> NoAction, status_bar |-> "Not a command", refresh |-> FALSE,
          raised |-> "none"]

(* Tool._handle_command(command, selected) for selected =                  *)
(* self._current_selection[index]: the method called with selected, the    *)
(* status bar returned, whether self._ui.refresh() ran and the exception   *)
(* that leaves the method, if any.                                         *)
handle_command(u, command) ==
    LET not_a_command ==
            [action |-> NoAction, status_bar |-> "Not a command", refresh |-> FALSE,
             raised |-> "none"]
    IN
    IF ~IsContest(u.cur) THEN not_a_command
    ELSE IF startswith(EDIT, command[1]) THEN
        IF Len(command) = 1
        THEN [action |-> ExternalCall("_edit", u), status_bar |-> "", refresh |-> TRUE,
              raised |-> "none"]
        ELSE not_a_command
    ELSE IF startswith(SUBMIT, command[1]) THEN
        IF Len(command) = 1
        THEN [action |-> ExternalCall("_submit", u), status_bar |-> "", refresh |-> FALSE,
              raised |-> "none"]
        ELSE not_a_command
    ELSE IF startswith(COMPILE, command[1]) THEN
        IF Len(command) = 1
        THEN [action |-> ExternalCall("_compile", u), status_bar |-> "", refresh |-> FALSE,
              raised |-> language_compile_raises]
        ELSE not_a_command
    ELSE IF startswith(TEST, command[1]) THEN
        [action |-> ExternalCall("_test", u), status_bar |-> "Not a command",
         refresh |-> FALSE,
         raised |-> IF Len(command) = 1 THEN language_compile_raises ELSE "none"]
    ELSE not_a_command

(* The command branch taking "j" for the down key. *)
UiCommandChar_moves ==
    \E ch \in CommandChars :
        LET r == move_selection(ui.index, ui.viewport_start, ui.selection, max_y, Fin(1))
            u == IF ch = "j" /\ ui.selection > 0
                 THEN [Fresh(ui) EXCEPT !.index = r.index, !.viewport_start = r.viewport_start]
                 ELSE Fresh(ui)
        IN
        /\ pc = "running"
        /\ ui.command # <<>>
        /\ Len(ui.command) < MaxCommand
        /\ ui' = [u EXCEPT !.command = Append(ui.command, ch), !.key = "char",
                           !.op = "none", !.n = Fin(0),
                           !.rows = {status_bar_row(max_y)}, !.bar = "command"]
        /\ UNCHANGED <<contests, start, selected, relative, max_y, count, history, paint, pc, fn>>

(* Any key but "\n" and KEY_BACKSPACE while command is not empty:          *)
(* command += chr(c)                                                       *)
UiCommandChar ==
    \E ch \in CommandChars :
        /\ pc = "running"
        /\ ui.command # <<>>
        /\ Len(ui.command) < MaxCommand
        /\ ui' = [Fresh(ui) EXCEPT !.command = Append(ui.command, ch), !.key = "char",
                                   !.op = "none", !.n = Fin(0),
                                   !.rows = {status_bar_row(max_y)}, !.bar = "command"]
        /\ UNCHANGED <<contests, start, selected, relative, max_y, count, history, paint, pc, fn>>

(* KEY_BACKSPACE while command is not empty: command = command[:-1] *)
UiCommandBackspace ==
    /\ pc = "running"
    /\ ui.command # <<>>
    /\ ui' = [Fresh(ui) EXCEPT !.command = SubSeq(ui.command, 1, Len(ui.command) - 1),
                               !.key = "BACKSPACE", !.op = "none", !.n = Fin(0),
                               !.rows = {status_bar_row(max_y)},
                               !.bar = IF Len(ui.command) = 1 THEN "" ELSE "command"]
    /\ UNCHANGED <<contests, start, selected, relative, max_y, count, history, paint, pc, fn>>

(* "\n" while command is not empty: quit, or _handle_command on the entry  *)
(* at the index of the user interface.                                     *)
UiCommandEnter ==
    LET command == split(ui.command)
        r == handle_command(ui, command)
    IN
    /\ pc = "running"
    /\ ui.command # <<>>
    /\ IF is_quit(command[1])
       THEN /\ pc' = "quit"
            /\ ui' = [Fresh(ui) EXCEPT !.key = "Enter", !.op = "command", !.n = Fin(0),
                                       !.rows = {}]
       ELSE IF getitem_raises(ui.selection, ui.index)
       THEN /\ pc' = "IndexError"
            /\ ui' = [Fresh(ui) EXCEPT !.key = "Enter", !.op = "command", !.n = Fin(0),
                                       !.rows = {}]
       ELSE IF r.raised # "none"
       THEN /\ pc' = r.raised
            /\ ui' = [ui EXCEPT !.key = "Enter", !.op = "command", !.n = Fin(0),
                                !.action = r.action, !.fetch = "none",
                                !.counted = (count # 0), !.rows = {}]
       ELSE /\ pc' = pc
            /\ ui' = [ui EXCEPT !.command = <<>>, !.key = "Enter", !.op = "command",
                                !.n = Fin(0), !.action = r.action, !.fetch = "none",
                                !.counted = (count # 0),
                                !.bar = r.status_bar,
                                !.rows = (IF r.refresh THEN refresh_viewport_rows(max_y)
                                          ELSE {}) \cup {status_bar_row(max_y)}]
    /\ UNCHANGED <<contests, start, selected, relative, max_y, count, history, paint, fn>>

(* The keys of SpecUI within the bounds of this specification. *)
ToolDigit == UiDigit /\ count' <= MaxToolCount /\ Len(ui'.typed) <= MaxToolCount
ToolResize == UiResize /\ max_y' = max_y
ToolScrollDown == UiScrollDown /\ ui'.viewport_start \in 0..ui.selection
ToolScrollUp == UiScrollUp /\ ui'.viewport_start \in 0..ui.selection

(* Every status saved in a container is that of the first entry at the top *)
(* of the window.                                                          *)
saved_at_top(saved) ==
    /\ saved.root \in {None, <<0, 0>>}
    /\ saved.cat \in {None, <<0, 0>>}
    /\ \A k \in 1..Len(saved.contest) : saved.contest[k] \in {None, <<0, 0>>}

(* The level keys pressed with the first entry selected at the top of the  *)
(* window.                                                                 *)
ToolGoDown == UiGoDown /\ saved_at_top(ui'.saved)
ToolGoUp == UiGoUp /\ saved_at_top(ui'.saved)

InitTool ==
    /\ contests = <<>>
    /\ start = <<0, None>>
    /\ selected = <<0, None>>
    /\ relative = 0
    /\ max_y \in 1..MaxToolHeight
    /\ count = 0
    /\ history = <<>>
    /\ paint = Painted("none", Fin(0), "none", {})
    /\ pc = "running"
    /\ fn = FnIdle
    /\ ui = ToolStart(max_y)

(* Tool.main with every key of the normal mode; the command is left with  *)
(* "\n" or KEY_BACKSPACE.                                                  *)
NextTool ==
    \/ ToolDigit
    \/ ToolResize
    \/ UiDown
    \/ UiUp
    \/ UiNPage
    \/ UiPPage
    \/ UiHome
    \/ UiGG
    \/ UiEnd
    \/ ToolScrollDown
    \/ ToolScrollUp
    \/ UiOther
    \/ ToolGoDown
    \/ ToolGoUp
    \/ UiColon
    \/ UiCommandBackspace
    \/ UiCommandEnter

SpecTool == InitTool /\ [][NextTool]_vars

(* Tool.main moving through the levels without a count, on a terminal of  *)
(* MaxToolHeight rows.                                                     *)
InitLevels ==
    /\ contests = <<>>
    /\ start = <<0, None>>
    /\ selected = <<0, None>>
    /\ relative = 0
    /\ max_y = MaxToolHeight
    /\ count = 0
    /\ history = <<>>
    /\ paint = Painted("none", Fin(0), "none", {})
    /\ pc = "running"
    /\ fn = FnIdle
    /\ ui = ToolStart(max_y)

NextLevels ==
    \/ UiDown
    \/ UiUp
    \/ UiEnd
    \/ ToolScrollDown
    \/ ToolScrollUp
    \/ UiGoDown
    \/ UiGoUp

SpecLevels == InitLevels /\ [][NextLevels]_vars

(* Tool.main typing commands at every level. *)
NextCommand ==
    \/ ToolDigit
    \/ UiDown
    \/ UiGoDown
    \/ UiGoUp
    \/ UiColon
    \/ UiCommandChar
    \/ UiCommandBackspace
    \/ UiCommandEnter

SpecCommand == InitTool /\ [][NextCommand]_vars

-----------------------------------------------------------------------------
(* Slot order, as the specification defines it *)

(* Lexicographic order on (group_index, item_index), None before every     *)
(* item index.                                                             *)
PosLt(a, b) ==
    \/ a[1] < b[1]
    \/ a[1] = b[1] /\ a[2] = None /\ b[2] # None
    \/ a[1] = b[1] /\ a[2] # None /\ b[2] # None /\ a[2][1] < b[2][1]

PosLe(a, b) == a = b \/ PosLt(a, b)

Lex(a, b) == IF a = b THEN 0 ELSE IF PosLt(a, b) THEN -1 ELSE 1

(* The number of slots from a to b: the slots at or after a and before b. *)
SlotDistance(cs, a, b) ==
    Cardinality({s \in ValidPositions(cs) : PosLe(a, s) /\ PosLt(s, b)})

(* b is shown in the window of height my that starts at a. *)
InWindow(cs, a, b, my) == PosLe(a, b) /\ SlotDistance(cs, a, b) < my

-----------------------------------------------------------------------------
(* Claims *)

(* C1: in every state reached by moves, resizes and expand/collapse keys,  *)
(* viewport_start is at or before selected in slot order and the number of *)
(* slots from viewport_start to selected is less than the window height.   *)
C1_WindowInvariant ==
    pc = "running" => InWindow(contests, start, selected, max_y)

(* C2: advance(pos, n) of a valid position is a valid position, neither    *)
(* before (0, None) nor after the last slot, for every step n.             *)
C2_Clamping ==
    (fn.op = "increment" /\ IsValid(contests, fn.a)) =>
        /\ ~fn.raised
        /\ IsValid(contests, fn.res)
        /\ PosLe(<<0, None>>, fn.res)
        /\ PosLe(fn.res, LastPosition(contests))

(* C3: for a valid position and a finite n > 0, advance(pos, n) is the     *)
(* slot n steps forward in the flattened enumeration, or the last slot     *)
(* when n overshoots.                                                      *)
C3_ForwardWalk ==
    (fn.op = "increment" /\ IsValid(contests, fn.a) /\ fn.n.k = "fin" /\ fn.n.v > 0) =>
        /\ ~fn.raised
        /\ fn.res = Walk(contests, fn.a, fn.n.v)

(* C4: for a valid position and a finite n < 0, advance(pos, n) is the     *)
(* slot |n| steps backward in the flattened enumeration, or (0, None) when *)
(* |n| overshoots.                                                         *)
C4_BackwardWalk ==
    (fn.op = "increment" /\ IsValid(contests, fn.a) /\ fn.n.k = "fin" /\ fn.n.v < 0) =>
        /\ ~fn.raised
        /\ fn.res = Walk(contests, fn.a, fn.n.v)

(* C4 witness: a backward step from a header enters the expanded previous  *)
(* group at its last item.                                                 *)
C4_Witness ==
    /\ fn.op = "increment" /\ ~fn.raised
    /\ fn.n = Fin(-1)
    /\ fn.a = <<1, None>>
    /\ contests[1].expanded /\ contests[1].len = 2
    /\ fn.res = <<0, Some(1)>>

(* C5: advance(pos, "last") is (last_group, len-1) when the last group is  *)
(* expanded and has an item, and (last_group, None) in every other case.   *)
C5_JumpToLast ==
    (fn.op = "increment" /\ IsValid(contests, fn.a) /\ fn.n = PosInf) =>
        /\ ~fn.raised
        /\ fn.res = IF contests[Len(contests)].expanded /\ contests[Len(contests)].len >= 1
                    THEN <<Len(contests) - 1, Some(contests[Len(contests)].len - 1)>>
                    ELSE <<Len(contests) - 1, None>>

(* C6: advance(pos, 0) returns pos for every valid pos and never raises. *)
C6_ZeroStep ==
    (fn.op = "increment" /\ IsValid(contests, fn.a) /\ fn.n = Fin(0)) =>
        /\ ~fn.raised
        /\ fn.res = fn.a

(* C6 witness: a zero step taken from an item position. *)
C6_Witness ==
    /\ fn.op = "increment" /\ fn.n = Fin(0)
    /\ IsValid(contests, fn.a) /\ fn.a[2] # None
    /\ fn.res = fn.a

(* C7: advance(advance(pos, "last"), "first") is (0, None), and the result *)
(* of the "last" jump is accepted as a position by the "first" jump.       *)
C7_RoundTrip ==
    (fn.op = "increment" /\ fn.after = "last" /\ fn.n = NegInf) =>
        /\ ~fn.raised
        /\ fn.res = <<0, None>>

(* C7 witness: the "first" jump applied to the last item of a second       *)
(* group, which the "last" jump returned.                                  *)
C7_Witness ==
    /\ fn.op = "increment" /\ fn.after = "last" /\ fn.n = NegInf
    /\ fn.a[1] = 1 /\ fn.a[2] = Some(1)
    /\ ~fn.raised /\ fn.res = <<0, None>>

(* C8: compare(a, advance(a, 1)) is less or equal for every valid a, and   *)
(* equal only when a is the last position of the outline.                  *)
C8_MonotonicCompare ==
    (fn.op = "compare" /\ fn.after = "increment" /\ fn.n = Fin(1)) =>
        /\ fn.cmp \in {-1, 0}
        /\ fn.cmp = 0 => fn.a = LastPosition(contests)

(* C9: compare(a, b) is -1, 0 or 1 as a precedes, equals or follows b in   *)
(* the lexicographic order with None before every item index, hence        *)
(* compare(a, b) = -compare(b, a).                                         *)
C9_CompareLexicographic ==
    fn.op = "compare" =>
        /\ fn.cmp = Lex(fn.a, fn.b)
        /\ fn.cmp = -compare_indices(fn.b, fn.a)

(* C10: a move whose new selected position lies in the current window      *)
(* (the window of the unchanged viewport_start) is reported as a selection *)
(* swap, never as a full repaint.                                          *)
C10_RedrawMinimality ==
    [][(paint'.op = "move" /\ paint'.dir # 0 /\ pc' = "running"
        /\ InWindow(contests, start, selected', max_y))
       => paint'.kind = "swap"]_vars


(* C11: whenever a move is reported as a selection swap, viewport_start    *)
(* and the expansion flags are unchanged, selected becomes advance(old     *)
(* selected, n), and the two rows repainted are the window rows of the old *)
(* and of the new selected slot (their slot offsets from viewport_start).  *)
C11_SelectionSwapEffect ==
    [][(paint'.op = "move" /\ paint'.kind = "swap")
       => /\ start' = start
          /\ contests' = contests
          /\ selected' = increment_index(contests, selected, paint'.n)
          /\ paint'.rows = {SlotDistance(contests, start, selected),
                            SlotDistance(contests, start, selected')}]_vars

(* C12: whenever a move is reported as a window shift, the new             *)
(* viewport_start is the new selected position if the move was backward    *)
(* and lies exactly height-1 slots before it if the move was forward.      *)
C12_WindowShiftPlacement ==
    [][(paint'.op = "move" /\ paint'.kind = "full" /\ pc' = "running")
       => IF paint'.dir < 0
          THEN start' = selected'
          ELSE /\ PosLe(start', selected')
               /\ SlotDistance(contests', start', selected') = max_y' - 1]_vars

(* C14: when a group is collapsed while selected points at one of its      *)
(* items, selected becomes the header of that group, the group is          *)
(* collapsed and the whole window is repainted.                            *)
C14_CollapseReclamps ==
    [][(paint'.op = "collapse" /\ selected[2] # None)
       => /\ pc' = "running"
          /\ selected' = <<selected[1], None>>
          /\ ~contests'[selected[1] + 1].expanded
          /\ paint'.kind = "full"
          /\ paint'.rows = 0..(max_y - 1)]_vars

(* C14 witness: a group was collapsed from its second item and its header  *)
(* is now selected.                                                        *)
C14_Witness ==
    /\ paint.op = "collapse" /\ paint.n = Fin(-2) /\ paint.kind = "full"
    /\ selected[2] = None
    /\ ~contests[selected[1] + 1].expanded
    /\ pc = "running"

(* C15: expanding or collapsing the group whose header is selected changes *)
(* only the expanded flag of that group: selected, viewport_start and      *)
(* every other group are unchanged.                                        *)
C15_ToggleFrame ==
    [][(paint'.op \in {"expand", "collapse", "toggle"} /\ selected[2] = None)
       => /\ selected' = selected
          /\ start' = start
          /\ Len(contests') = Len(contests)
          /\ \A g \in 1..Len(contests) :
                /\ contests'[g].len = contests[g].len
                /\ g # selected[1] + 1 => contests'[g] = contests[g]
          /\ contests'[selected[1] + 1].expanded =
                CASE paint'.op = "expand" -> TRUE
                  [] paint'.op = "collapse" -> FALSE
                  [] OTHER -> ~contests[selected[1] + 1].expanded]_vars

(* C15 witness: the second group was expanded from its header while the    *)
(* first group stayed collapsed and the window start stayed on the first.  *)
C15_Witness ==
    /\ paint.op \in {"expand", "toggle"}
    /\ Len(contests) = 2
    /\ selected = <<1, None>> /\ start = <<0, None>>
    /\ contests[2].expanded /\ ~contests[1].expanded

(* C16: in every reachable state selected and viewport_start are valid     *)
(* positions: group index in range, item index None or within an expanded  *)
(* group.                                                                  *)
C16_PositionValidity ==
    pc = "running" => (IsValid(contests, selected) /\ IsValid(contests, start))


(* C17: over a list of at least one contest, empty contests and any        *)
(* expansion flags allowed, no move, jump, expand, collapse or resize      *)
(* raises: the key loop is running or was left with "q".                   *)
C17_Totality ==
    Len(contests) > 0 => pc \in {"running", "quit"}

(* C19: over a list of no contests the first draw and every later key      *)
(* complete without raising, and the selected contest index is never       *)
(* negative.                                                               *)
C19_EmptyOutlineTolerated ==
    Len(contests) = 0 => (pc \in {"running", "quit"} /\ selected[1] >= 0)


(* C18: _increment_index called with an index that is no valid position    *)
(* (contest index out of range, problem index on a collapsed contest, or   *)
(* problem index outside 0..len-1 of its contest) raises instead of        *)
(* returning a position.                                                   *)
C18_StructuralViolationsFailFast ==
    (fn.op = "increment" /\ ~IsValid(contests, fn.a)) => fn.raised


(* C13: after a resize event with any new height the selected index is     *)
(* unchanged, the viewport start equals the selected index (the selected   *)
(* entry is the first visible row), every row is repainted and the resize  *)
(* raises nothing.                                                         *)
C13_ResizeRepins ==
    [][ui'.op = "refresh"
       => /\ ui'.index = ui.index
          /\ ui'.viewport_start = ui'.index
          /\ ui'.rows = 0..(max_y' - 1)
          /\ pc' = "running"]_vars

(* The decimal value of a sequence of digits, 0 for the empty sequence. *)
RECURSIVE DecimalValue(_)
DecimalValue(digits) ==
    IF digits = <<>> THEN 0
    ELSE 10 * DecimalValue(SubSeq(digits, 1, Len(digits) - 1)) + digits[Len(digits)]

(* The index reached from index by a step n over len entries, clamped. *)
ClampIndex(index, n, len) ==
    IF n.k = "inf" THEN (IF n.v > 0 THEN len - 1 ELSE 0)
    ELSE IF index + n.v < 0 THEN 0
    ELSE IF index + n.v > len - 1 THEN len - 1
    ELSE index + n.v

(* C20: a down/up key pressed after digits of decimal value c moves the    *)
(* selection by +c/-c, and by +1/-1 when c = 0; a page-down/page-up key    *)
(* moves by +10*c/-10*c, and by +10/-10 when c = 0; Home, gg, End and G    *)
(* pass the first/last sentinel whatever c is.                             *)
C20_CountPrefix ==
    [][ui'.op = "move_selection"
       => LET c == DecimalValue(ui.typed) IN
          /\ ui'.n = CASE ui'.key = "j" -> Fin(IF c = 0 THEN 1 ELSE c)
                       [] ui'.key = "k" -> Fin(IF c = 0 THEN -1 ELSE -c)
                       [] ui'.key = "NPAGE" -> Fin(IF c = 0 THEN 10 ELSE 10 * c)
                       [] ui'.key = "PPAGE" -> Fin(IF c = 0 THEN -10 ELSE -10 * c)
                       [] ui'.key \in {"HOME", "gg"} -> NegInf
                       [] ui'.key = "G" -> PosInf
          /\ ui'.index = ClampIndex(ui.index, ui'.n, ui.selection)]_vars

(* C20 witness: "1", "2", "j" moved the selection by 12, to the last entry. *)
C20_Witness ==
    /\ ui.op = "move_selection" /\ ui.key = "j" /\ ui.n = Fin(12)
    /\ ui.index = RootEntries - 1
    /\ count = 0


(* C27: for every valid position and every finite n the loop of            *)
(* _increment_index runs at most once per contest between the start and    *)
(* the result, and at most once per contest of the list, whatever the      *)
(* magnitude of n and the number of problems.                              *)
C27_BoundedWalk ==
    (fn.op = "increment" /\ fn.n.k = "fin" /\ IsValid(contests, fn.a) /\ ~fn.raised)
        => /\ fn.iters <= (IF fn.res[1] >= fn.a[1] THEN fn.res[1] - fn.a[1]
                           ELSE fn.a[1] - fn.res[1]) + 1
           /\ fn.iters <= Len(contests)

(* C27 witness: a step of HugeStep from the first of two contests with     *)
(* problems took two iterations.                                           *)
C27_Witness ==
    /\ fn.op = "increment" /\ fn.n = Fin(HugeStep) /\ ~fn.raised
    /\ fn.a = <<0, Some(0)>>
    /\ Len(contests) = 2 /\ contests[1].len = MaxItems /\ contests[2].len = MaxItems
    /\ fn.iters = 2

(* C28: in every reachable state of the key loop the cached _relative      *)
(* equals the number of slots from _start to _selected.                    *)
C28_CachedRowExact ==
    pc = "running" => relative = SlotDistance(contests, start, selected)

(* C21: going up a level restores exactly the pair (index, viewport_start) *)
(* the parent level had when the user drilled down from it, whatever was   *)
(* done inside the sub-level.                                              *)
C21_StatusRoundTrip ==
    [][(ui'.op = "go_up" /\ ui.stack # <<>>)
          => ui_status(ui') = ui.drilled[Len(ui.drilled)]]_vars

(* C21 witness: back at the root with the window at 1 restored, after the  *)
(* catalogue was left with its window at 0.                                *)
C21_Witness ==
    /\ ui.op = "go_up" /\ ui.cur = RootContainer
    /\ ui_status(ui) = <<0, 1>>
    /\ ui.saved.cat = <<0, 0>>

(* C22: the current container is never an element of the stack, and a      *)
(* motion or scroll key changes neither the current container, nor the     *)
(* stack, nor the saved status or the entries of any container.            *)
C22_LevelIsolation ==
    /\ [](\A i \in 1..Len(ui.stack) : ui.stack[i] # ui.cur)
    /\ [][ui'.op \in {"move_selection", "move_viewport"}
            => /\ ui'.saved = ui.saved
               /\ ui'.cat = ui.cat
               /\ ui'.stack = ui.stack
               /\ ui'.cur = ui.cur]_vars

(* C22 witness: a scroll inside a contest, with the root and the catalogue *)
(* on the stack and their statuses saved.                                  *)
C22_Witness ==
    /\ ui.op = "move_viewport"
    /\ ui.stack = <<RootContainer, CatalogueContainer>>
    /\ IsContest(ui.cur)
    /\ ui.saved.root # None /\ ui.saved.cat # None

(* C23: after a scroll of the viewport on a terminal with at least one     *)
(* list row the selected index is unchanged if it lies within the rows of  *)
(* the shifted window and is otherwise the nearest row of the window.      *)
C23_ScrollKeepsSelectionVisible ==
    [][(ui'.op = "move_viewport" /\ max_y > 1)
          => LET first == ui'.viewport_start
                 last == ui'.viewport_start + (max_y - 1) - 1
             IN ui'.index = IF ui.index < first THEN first
                            ELSE IF ui.index > last THEN last
                            ELSE ui.index]_vars

(* C24: after a scroll of the viewport, viewport_start is the index of an  *)
(* entry of the current list.                                              *)
C24_ScrollClamped ==
    ui.op = "move_viewport"
        => 0 <= ui.viewport_start /\ ui.viewport_start <= ui.selection - 1

(* C25: when get_catalogue() raises ResponseError the key loop keeps       *)
(* running with the stack, the current container and the selection         *)
(* unchanged, and the status bar names the failure.                        *)
C25_CatalogueFailureHandled ==
    [][ui'.fetch = "failed"
          => /\ pc' = "running"
             /\ ui'.stack = ui.stack
             /\ ui'.cur = ui.cur
             /\ ui_status(ui') = ui_status(ui)
             /\ ui'.bar = "ResponseError"]_vars

(* C26: a command other than quit entered on a container calls no method,  *)
(* sets the status bar to "Not a command" and leaves the selection, the    *)
(* viewport, the current container and the stack unchanged; entered on a   *)
(* problem, the method it calls receives the problem at the selected index *)
(* of the current contest.                                                 *)
C26_LeafDispatch ==
    [][(ui'.op = "command" /\ ui.selection > 0 /\ ~is_quit(split(ui.command)[1]))
          => /\ ui_status(ui') = ui_status(ui)
             /\ ui'.stack = ui.stack
             /\ ui'.cur = ui.cur
             /\ IF IsContest(ui.cur)
                THEN ui'.action # NoAction => ui'.action.entry = <<ui.cur[2], ui.index>>
                ELSE /\ ui'.action = NoAction
                     /\ ui'.bar = "Not a command"
                     /\ pc' = "running"]_vars

(* C26 witness: ":e" on the root answered with "Not a command". *)
C26_Witness ==
    /\ ui.op = "command" /\ ui.cur = RootContainer
    /\ ui.bar = "Not a command" /\ ui.action = NoAction
    /\ pc = "running"

(* C29: after every key of the normal mode other than a digit and a resize *)
(* event the count is 0, and a motion key read when the count is 0 moves   *)
(* by its default step.                                                    *)
C29_CountAppliesOnce ==
    [][/\ (ui.command = <<>> /\ pc' = "running" /\ ui'.key \notin {"digit", "RESIZE"})
            => count' = 0
       /\ (count = 0 /\ ui'.op = "move_selection")
            => /\ ui'.key = "j" => ui'.n = Fin(1)
               /\ ui'.key = "k" => ui'.n = Fin(-1)
               /\ ui'.key = "NPAGE" => ui'.n = Fin(10)
               /\ ui'.key = "PPAGE" => ui'.n = Fin(-10)]_vars

(* C29 witness: a level was entered by a key read with a count pending,    *)
(* and the count is 0.                                                     *)
C29_Witness ==
    /\ ui.key = "l" /\ ui.counted /\ ui.cur = CatalogueContainer
    /\ count = 0 /\ pc = "running"

(* C30: a resize event changes neither the count, nor the digits read, nor *)
(* the history, and the down key read after a resize event moves by the    *)
(* value of the digits read (1 if that is 0).                              *)
C30_ResizeKeepsCount ==
    [][/\ ui'.op = "refresh"
            => count' = count /\ ui'.typed = ui.typed /\ history' = history
       /\ (ui.key = "RESIZE" /\ ui'.key = "j")
            => ui'.n = Fin(IF DecimalValue(ui.typed) = 0 THEN 1 ELSE DecimalValue(ui.typed))]_vars

(* C30 witness: a resize event read after the digits 1 and 2, the count    *)
(* still 12 and the history kept.                                          *)
C30_Witness ==
    /\ ui.key = "RESIZE"
    /\ ui.typed = <<1, 2>> /\ count = 12
    /\ history # <<>>

(* C31: move_selection(n) on a non-empty list sets the index to            *)
(* max(0, min(len - 1, old index + n)), the last entry for +inf and the    *)
(* first for -inf, so the index stays within 0..len-1.                     *)
C31_MoveClampsIndex ==
    fn.op = "move_selection"
        => /\ fn.res.index \in 0..(fn.len - 1)
           /\ fn.n = PosInf => fn.res.index = fn.len - 1
           /\ fn.n = NegInf => fn.res.index = 0
           /\ fn.n.k = "fin"
                => LET want == fn.index + fn.n.v
                       low == IF want > fn.len - 1 THEN fn.len - 1 ELSE want
                   IN fn.res.index = (IF low < 0 THEN 0 ELSE low)

(* C31 witness: a huge step up from the last entry of the longest list     *)
(* ends on the first entry.                                                *)
C31_Witness ==
    /\ fn.op = "move_selection"
    /\ fn.len = MaxEntries /\ fn.index = MaxEntries - 1
    /\ fn.n = Fin(-HugeStep)
    /\ fn.res.index = 0

(* C32: on a window of at least two lines, after move_selection the        *)
(* selected entry is on one of the lines of the list, whatever the         *)
(* viewport start was before.                                              *)
C32_MoveMakesVisible ==
    (fn.op = "move_selection" /\ fn.my >= 2)
        => /\ fn.res.viewport_start <= fn.res.index
           /\ fn.res.index <= fn.res.viewport_start + fn.my - 2

(* C32 witness: the viewport had been scrolled past the end of the list    *)
(* and the move brought it back to the selected entry.                     *)
C32_Witness ==
    /\ fn.op = "move_selection" /\ fn.my = MaxUiHeight
    /\ fn.viewport_start = fn.len + MaxScroll
    /\ fn.res.viewport_start = fn.res.index

(* C33: move_selection leaves the viewport start alone when the new index  *)
(* is on a line of the list, sets it to the new index when that is above   *)
(* the window, and puts the new index on the last line of the list when    *)
(* that is below.                                                          *)
C33_MoveScrollsMinimally ==
    fn.op = "move_selection"
        => LET ni == fn.res.index
               vs == fn.viewport_start
           IN fn.res.viewport_start =
                  (IF vs <= ni /\ ni <= vs + fn.my - 2 THEN vs
                   ELSE IF ni < vs THEN ni
                   ELSE ni - (fn.my - 2))

(* C33 witness: the selection moved within a window that does not start    *)
(* at the first entry, and the window stayed.                              *)
C33_Witness ==
    /\ fn.op = "move_selection" /\ fn.my = MaxUiHeight
    /\ fn.viewport_start = 1 /\ fn.index = 1
    /\ fn.res.index = 2 /\ fn.res.viewport_start = 1

(* C34: between keystrokes the stack holds at most the root and the        *)
(* catalogue, in that order, and the client is set exactly when the stack  *)
(* is not empty, so load_problem is only called on a client.               *)
C34_StackClientConsistent ==
    pc = "running"
        => /\ Len(ui.stack) <= 2
           /\ ui.stack = SubSeq(<<RootContainer, CatalogueContainer>>, 1, Len(ui.stack))
           /\ (ui.client # None) <=> (ui.stack # <<>>)
           /\ ui.action.name = "load_problem" => ui.client # None

(* C34 witness: back at the root from a loaded catalogue, no client. *)
C34_Witness ==
    /\ pc = "running"
    /\ ui.key = "h" /\ ui.op = "go_up"
    /\ ui.stack = <<>> /\ ui.cat # <<>>
    /\ ui.client = None

(* C35: going up with an empty stack and going down on a root entry that   *)
(* names no client change neither the stack, nor the current selection,    *)
(* nor the index, nor the viewport start.                                  *)
C35_InapplicableLevelChange ==
    [][(\/ ui'.op = "go_up" /\ ui.stack = <<>>
        \/ ui'.op = "go_down" /\ ui.stack = <<>> /\ ui.index # CodeforcesEntry)
          => /\ ui'.stack = ui.stack
             /\ ui'.cur = ui.cur
             /\ ui'.selection = ui.selection
             /\ ui'.index = ui.index
             /\ ui'.viewport_start = ui.viewport_start
             /\ ui'.client = ui.client
             /\ ui'.saved = ui.saved]_vars

(* C35 witness: the down key on the last entry of the root, the window     *)
(* scrolled, and the root still shown.                                     *)
C35_Witness ==
    /\ ui.key = "l" /\ ui.op = "go_down"
    /\ ui.cur = RootContainer /\ ui.stack = <<>>
    /\ ui.index = RootEntries - 1 /\ ui.viewport_start # 0

(* C36: a container entered for the first time is shown at index 0 and     *)
(* viewport start 0, and a container that was left by going up is shown,   *)
(* when it is entered again without a reload, at the index and viewport    *)
(* start it was left with.                                                 *)
C36_ReenterResumes ==
    [][(ui'.op = "go_down" /\ Len(ui'.stack) = Len(ui.stack) + 1)
          => LET was == IF ui'.fetch = "loaded" THEN None
                        ELSE container_status(ui.left, ui'.cur)
             IN ui_status(ui') = (IF was = None THEN <<0, 0>> ELSE was)]_vars

(* C36 witness: the catalogue entered again, not reloaded, with the        *)
(* scrolled window it was left with.                                       *)
C36_Witness ==
    /\ ui.key = "l" /\ ui.op = "go_down" /\ ui.fetch = "none"
    /\ ui.cur = CatalogueContainer
    /\ ui.saved.cat = <<0, 1>>
    /\ ui_status(ui) = <<0, 1>>

(* C37: while the command is not empty no key changes the index, the       *)
(* viewport start, the count, the history, the stack or the current        *)
(* selection, and a character key, a digit or a motion letter included,    *)
(* is appended to the command; the down key read after the command ended   *)
(* moves the selection by one.                                             *)
C37_CommandModeIsolated ==
    [][/\ ui.command # <<>>
            => /\ ui'.index = ui.index
               /\ ui'.viewport_start = ui.viewport_start
               /\ count' = count /\ count = 0
               /\ history' = history
               /\ ui'.stack = ui.stack
               /\ ui'.cur = ui.cur
               /\ ui'.op # "move_selection"
               /\ ui'.key = "char"
                    => /\ Len(ui'.command) = Len(ui.command) + 1
                       /\ SubSeq(ui'.command, 1, Len(ui.command)) = ui.command
                       /\ ui'.command[Len(ui'.command)] \in CommandChars
               /\ ui'.command = <<>> => ui'.key \in {"Enter", "BACKSPACE"}
       /\ (ui.command = <<>> /\ ui.key \in {"Enter", "BACKSPACE"} /\ ui'.key = "j")
            => /\ ui'.op = "move_selection" /\ ui'.n = Fin(1)
               /\ ui'.command = <<>>
               /\ ui'.index = ClampIndex(ui.index, Fin(1), ui.selection)]_vars

(* C37 witness: the letter of the down key typed after ":" on the second   *)
(* entry of the root, the command holding it.                              *)
C37_Witness ==
    /\ ui.command = <<":", "j">> /\ ui.key = "char"
    /\ ui.cur = RootContainer /\ ui.index = 1
    /\ pc = "running"

====
